---------------------------- MODULE Spec2Model ----------------------------
(***************************************************************************)
(* The settings form of components/profile-settings.tsx: the mount-time    *)
(* load (fetchSettings), the demo-mode fallback, validation with           *)
(* settingsFormSchema and the save (onSubmit).                             *)
(*                                                                         *)
(* Numbers are kept in hundredths (0.85 is 85, 4000 is 400000), the        *)
(* resolution of the finest input step of the form (step="0.01").  A text  *)
(* typed into an input is a tuple of one-character strings, so that the    *)
(* coercion of z.coerce.number() is computed and not assumed.              *)
(***************************************************************************)
EXTENDS Integers, Sequences, FiniteSets, TLC

VARIABLES
    isLoading,      \* useState(true), line 40
    useMockData,    \* useState(false), line 41: the demo-mode flag
    form,           \* the values held by useForm: the edit buffer
    errors,         \* formState.errors: the fields with a validation message
    loadPc,         \* position of the mount-time fetchSettings call
    response,       \* the answer to GET /api/profile/settings, once arrived
    inflight,       \* the onSubmit calls that have not finished yet
    toasts,         \* every toast({type, description}) emitted so far
    gets,           \* GET requests issued
    puts,           \* PUT requests issued
    submits         \* onSubmit calls made (submits that passed validation)

vars == <<isLoading, useMockData, form, errors, loadPc, response, inflight,
          toasts, gets, puts, submits>>

\* Number of submits that pass validation in one session of the model.
MaxSubmits == 2

---------------------------------------------------------------------------
\* JavaScript values

Undefined == [k |-> "undefined"]
Null      == [k |-> "null"]
NaN       == [k |-> "NaN"]
Num(n)    == [k |-> "number", n |-> n]
Str(s)    == [k |-> "string", s |-> s]

Digits == {"0", "1", "2", "3", "4", "5", "6", "7", "8", "9"}

DigitVal(c) ==
    CASE c = "0" -> 0 [] c = "1" -> 1 [] c = "2" -> 2 [] c = "3" -> 3
      [] c = "4" -> 4 [] c = "5" -> 5 [] c = "6" -> 6 [] c = "7" -> 7
      [] c = "8" -> 8 [] c = "9" -> 9

RECURSIVE IntOf(_)
IntOf(s) ==
    IF s = <<>> THEN 0
    ELSE IntOf(SubSeq(s, 1, Len(s) - 1)) * 10 + DigitVal(s[Len(s)])

AllDigits(s) == \A i \in 1..Len(s) : s[i] \in Digits

\* The fraction digits of a decimal literal, in hundredths.  The texts of
\* the model carry at most two decimals.
FracOf(f) ==
    CASE Len(f) = 0 -> 0
      [] Len(f) = 1 -> DigitVal(f[1]) * 10
      [] OTHER      -> DigitVal(f[1]) * 10 + DigitVal(f[2])

\* An unsigned decimal literal: digits, digits.digits, .digits or digits.
UnsignedOf(s) ==
    LET dots == {i \in 1..Len(s) : s[i] = "."}
    IN  IF dots = {}
        THEN IF s # <<>> /\ AllDigits(s) THEN Num(IntOf(s) * 100) ELSE NaN
        ELSE IF Cardinality(dots) > 1 THEN NaN
        ELSE LET d == CHOOSE i \in dots : TRUE
                 w == SubSeq(s, 1, d - 1)
                 f == SubSeq(s, d + 1, Len(s))
             IN  IF AllDigits(w) /\ AllDigits(f) /\ Len(w) + Len(f) > 0
                 THEN Num(IntOf(w) * 100 + FracOf(f))
                 ELSE NaN

\* Number(text): the empty text is 0, a decimal literal is its value, any
\* other text is NaN.
StringToNumber(s) ==
    IF s = <<>> THEN Num(0)
    ELSE IF s[1] = "-"
         THEN LET u == UnsignedOf(Tail(s))
              IN  IF u = NaN THEN NaN ELSE Num(0 - u.n)
    ELSE IF s[1] = "+" THEN UnsignedOf(Tail(s))
    ELSE UnsignedOf(s)

\* Number(value), what z.coerce.number() applies to its input.
ToNumber(v) ==
    CASE v.k = "number"    -> v
      [] v.k = "string"    -> StringToNumber(v.s)
      [] v.k = "null"      -> Num(0)
      [] OTHER             -> NaN

---------------------------------------------------------------------------
\* The data model

SettingsFields ==
    {"temperature", "maxTokens", "topP", "frequencyPenalty", "presencePenalty"}

BookkeepingFields == {"userId", "createdAt", "updatedAt"}

StoreFields == SettingsFields \cup BookkeepingFields

\* Variant: the fallback values drift from the documented defaults.
MOCK_SETTINGS_Drift ==
    [f \in SettingsFields |->
        CASE f = "temperature"      -> Num(100)
          [] f = "maxTokens"        -> Num(400000)
          [] f = "topP"             -> Num(95)
          [] f = "frequencyPenalty" -> Num(0)
          [] f = "presencePenalty"  -> Num(0)]

MOCK_SETTINGS ==
    [f \in SettingsFields |->
        CASE f = "temperature"      -> Num(70)
          [] f = "maxTokens"        -> Num(400000)
          [] f = "topP"             -> Num(95)
          [] f = "frequencyPenalty" -> Num(0)
          [] f = "presencePenalty"  -> Num(0)]

defaultValues ==
    [f \in StoreFields |-> IF f = "temperature" THEN Num(70) ELSE Undefined]

---------------------------------------------------------------------------
\* settingsFormSchema

\* Variant: topP is given the bounds of temperature.
FieldChecksWide(f, n) ==
    CASE f = "temperature"      -> n >= 0 /\ n <= 200
      [] f = "maxTokens"        -> n > 0 /\ n % 100 = 0
      [] f = "topP"             -> n >= 0 /\ n <= 200
      [] f = "frequencyPenalty" -> n >= 0 - 200 /\ n <= 200
      [] f = "presencePenalty"  -> n >= 0 - 200 /\ n <= 200

\* The checks chained after z.coerce.number() for each field, on a number
\* in hundredths.
FieldChecks(f, n) ==
    CASE f = "temperature"      -> n >= 0 /\ n <= 200
      [] f = "maxTokens"        -> n > 0 /\ n % 100 = 0
      [] f = "topP"             -> n >= 0 /\ n <= 100
      [] f = "frequencyPenalty" -> n >= 0 - 200 /\ n <= 200
      [] f = "presencePenalty"  -> n >= 0 - 200 /\ n <= 200

IsOptional(f) == f # "temperature"

\* Parsing one field: .optional() lets undefined through untouched, every
\* other input is coerced with Number() and then checked.
settingsFormSchema(f, v) ==
    IF IsOptional(f) /\ v = Undefined
    THEN [ok |-> TRUE, value |-> Undefined]
    ELSE LET c == ToNumber(v)
         IN  IF c = NaN THEN [ok |-> FALSE, value |-> Undefined]
             ELSE [ok |-> FieldChecks(f, c.n), value |-> c]

\* zodResolver(settingsFormSchema): the fields that get a message, and the
\* parsed data (z.object keeps the declared keys only).
ResolverErrors(values) ==
    {f \in SettingsFields : ~settingsFormSchema(f, values[f]).ok}

ResolverData(values) ==
    [f \in SettingsFields |-> settingsFormSchema(f, values[f]).value]

\* Variant: the body carries the optional fields only.
RequestBodyOptionalOnly(data) ==
    [f \in {g \in SettingsFields : data[g] # Undefined /\ g # "temperature"}
        |-> data[f].n]

\* JSON.stringify(data): a key whose value is undefined is left out.
RequestBody(data) ==
    [f \in {g \in SettingsFields : data[g] # Undefined} |-> data[f].n]

---------------------------------------------------------------------------
\* The remote store and the user

\* Field values GET /api/profile/settings may return.
StoreValues(f) ==
    CASE f = "temperature"      -> {Null, Num(85), Num(250)}
      [] f = "maxTokens"        -> {Null, Num(200000)}
      [] f = "topP"             -> {Null, Num(50)}
      [] f = "frequencyPenalty" -> {Num(0 - 100)}
      [] f = "presencePenalty"  -> {Null, Str(<<"n", "/", "a">>)}
      [] f = "userId"           -> {Str(<<"u", "1">>)}
      [] f = "createdAt"        -> {Str(<<"2", "0", "2", "5">>)}
      [] f = "updatedAt"        -> {Null, Str(<<"2", "0", "2", "6">>)}

StoreRecords ==
    {[temperature |-> t, maxTokens |-> m, topP |-> p, frequencyPenalty |-> q,
      presencePenalty |-> r, userId |-> u, createdAt |-> c, updatedAt |-> d] :
        t \in StoreValues("temperature"), m \in StoreValues("maxTokens"),
        p \in StoreValues("topP"), q \in StoreValues("frequencyPenalty"),
        r \in StoreValues("presencePenalty"), u \in StoreValues("userId"),
        c \in StoreValues("createdAt"), d \in StoreValues("updatedAt")}

NoResponse == [kind |-> "none", settings |-> Null]

\* Ways the GET can settle: fetch rejects, a non-2xx status, a body that is
\* not JSON, the JSON body null, a body without settings, a settings record.
GetResponses ==
    {[kind |-> k, settings |-> Null] :
        k \in {"rejected", "not_ok", "bad_json", "null_body", "json"}}
    \cup {[kind |-> "json", settings |-> s] : s \in StoreRecords}

\* Texts the user can leave in an input.
UserTexts(f) ==
    CASE f = "temperature"      -> {<<"1", ".", "2">>}
      [] f = "maxTokens"        -> {<<>>, <<"2", "0", "0", "0">>, <<"2", ".", "5">>}
      [] f = "topP"             -> {<<>>, <<"1", ".", "5">>}
      [] f = "frequencyPenalty" -> {<<"-", "3">>}
      [] f = "presencePenalty"  -> {<<"0", ".", "5">>}

NoOutcome == [kind |-> "none", message |-> ""]

\* Ways the PUT can settle: 2xx, another status, fetch rejects.
PutOutcomes ==
    {[kind |-> "ok", message |-> ""],
     [kind |-> "not_ok", message |-> ""],
     [kind |-> "rejected", message |-> "Failed to fetch"]}

---------------------------------------------------------------------------
\* The component

Init ==
    /\ isLoading = TRUE
    /\ useMockData = FALSE
    /\ form = defaultValues
    /\ errors = {}
    /\ loadPc = "mounting"
    /\ response = NoResponse
    /\ inflight = <<>>
    /\ toasts = <<>>
    /\ gets = 0
    /\ puts = 0
    /\ submits = 0

\* Variant: the notification is emitted twice.
toastTwice(t) == Append(Append(toasts, t), t)

toast(t) == Append(toasts, t)

Remove(s, i) == SubSeq(s, 1, i - 1) \o SubSeq(s, i + 1, Len(s))

\* Variant: the controls ignore isLoading.
ControlsAlwaysEnabled == TRUE

\* disabled={isLoading} on every Input and on the submit Button.
ControlsEnabled == ~isLoading

\* useEffect(() => { fetchSettings() }, []) runs once, after the first
\* render; fetchSettings runs up to its first await.
fetchSettings ==
    /\ loadPc = "mounting"
    /\ isLoading' = TRUE
    /\ gets' = gets + 1
    /\ loadPc' = "fetching"
    /\ UNCHANGED <<useMockData, form, errors, response, inflight, toasts,
                   puts, submits>>

\* The network settles the GET.
GetSettles(r) ==
    /\ loadPc = "fetching"
    /\ response' = r
    /\ loadPc' = "responded"
    /\ UNCHANGED <<isLoading, useMockData, form, errors, inflight, toasts,
                   gets, puts, submits>>

\* The try block throws: fetch rejected, !response.ok, response.json()
\* threw, or data is null and data.settings is a TypeError.
LoadThrows(r) == r.kind \in {"rejected", "not_ok", "bad_json", "null_body"}

\* Variant: only userId is filtered out.
IsBookkeepingUserIdOnly(key) == key = "userId"

\* key !== 'userId' && key !== 'createdAt' && key !== 'updatedAt'
IsBookkeeping(key) == key \in BookkeepingFields

\* Object.entries(settings).forEach(... setValue(key, value)) over a record.
SetValues(values, settings, skipped) ==
    [key \in StoreFields |->
        IF key \in DOMAIN settings /\ settings[key] # Null /\ key \notin skipped
        THEN settings[key]
        ELSE values[key]]

\* fetchSettings from the settled await to the end of finally.
fetchSettingsResume ==
    /\ loadPc = "responded"
    /\ IF LoadThrows(response)
       THEN /\ useMockData' = TRUE
            /\ form' = SetValues(form, MOCK_SETTINGS, {})
            /\ toasts' = toast([type |-> "error", description |->
                   "Using sample settings: Database connection unavailable"])
       ELSE /\ form' = IF response.settings # Null
                       THEN SetValues(form, response.settings,
                                      {k \in StoreFields : IsBookkeeping(k)})
                       ELSE form
            /\ useMockData' = FALSE
            /\ toasts' = toasts
    /\ isLoading' = FALSE
    /\ loadPc' = "done"
    /\ response' = NoResponse
    /\ UNCHANGED <<errors, inflight, gets, puts, submits>>

\* The user changes an input; register() stores the text of the input.
Edit(f, text) ==
    /\ ControlsEnabled
    /\ form' = [form EXCEPT ![f] = Str(text)]
    /\ UNCHANGED <<isLoading, useMockData, errors, loadPc, response,
                   inflight, toasts, gets, puts, submits>>

\* Variant: onSubmit never takes the mock branch.
InMockModeNever == FALSE

\* if (useMockData) in onSubmit
InMockMode == useMockData

\* onSubmit(data) up to its return (mock mode) or its await (live mode).
onSubmit(data) ==
    /\ isLoading' = TRUE
    /\ submits' = submits + 1
    /\ IF InMockMode
       THEN /\ inflight' = Append(inflight,
                   [kind |-> "timer", body |-> <<>>, outcome |-> NoOutcome])
            /\ puts' = puts
       ELSE /\ inflight' = Append(inflight,
                   [kind |-> "put", body |-> RequestBody(data),
                    outcome |-> NoOutcome])
            /\ puts' = puts + 1
    /\ UNCHANGED <<useMockData, form, loadPc, response, toasts, gets>>

\* The form's submit event: handleSubmit runs the resolver, and calls
\* onSubmit only when there is no error.
handleSubmit ==
    /\ ControlsEnabled
    /\ LET errs == ResolverErrors(form)
       IN  IF errs # {}
           THEN /\ errors' = errs
                /\ UNCHANGED <<isLoading, useMockData, form, loadPc, response,
                               inflight, toasts, gets, puts, submits>>
           ELSE /\ submits < MaxSubmits
                /\ errors' = {}
                /\ onSubmit(ResolverData(form))

\* Variant: the timer callback forgets setIsLoading(false).
TimerFiresStillLoading(i) ==
    /\ inflight[i].kind = "timer"
    /\ toasts' = toast([type |-> "success", description |->
                           "Settings updated in mock mode"])
    /\ inflight' = Remove(inflight, i)
    /\ UNCHANGED <<isLoading, useMockData, form, errors, loadPc, response,
                   gets, puts, submits>>

\* The callback of setTimeout(..., 500).
TimerFires(i) ==
    /\ inflight[i].kind = "timer"
    /\ isLoading' = FALSE
    /\ toasts' = toast([type |-> "success", description |->
                           "Settings updated in mock mode"])
    /\ inflight' = Remove(inflight, i)
    /\ UNCHANGED <<useMockData, form, errors, loadPc, response, gets, puts,
                   submits>>

\* The network settles the PUT.
PutSettles(i, o) ==
    /\ inflight[i].kind = "put"
    /\ inflight[i].outcome = NoOutcome
    /\ inflight' = [inflight EXCEPT ![i].outcome = o]
    /\ UNCHANGED <<isLoading, useMockData, form, errors, loadPc, response,
                   toasts, gets, puts, submits>>

\* The toast of a settled PUT.
SubmitToast(o) ==
    CASE o.kind = "ok" ->
           [type |-> "success", description |-> "Settings updated successfully"]
      [] o.kind = "not_ok" ->
           [type |-> "error", description |-> "Failed to update settings"]
      [] OTHER ->
           [type |-> "error", description |-> o.message]

\* Variant: a failed save falls back to mock mode, as a failed load does.
onSubmitResumeFallback(i) ==
    /\ inflight[i].kind = "put"
    /\ inflight[i].outcome # NoOutcome
    /\ toasts' = toast(SubmitToast(inflight[i].outcome))
    /\ useMockData' = (useMockData \/ inflight[i].outcome.kind # "ok")
    /\ isLoading' = FALSE
    /\ inflight' = Remove(inflight, i)
    /\ UNCHANGED <<form, errors, loadPc, response, gets, puts, submits>>

\* Variant: a failed save resets the form to its default values.
onSubmitResumeReset(i) ==
    /\ inflight[i].kind = "put"
    /\ inflight[i].outcome # NoOutcome
    /\ toasts' = toast(SubmitToast(inflight[i].outcome))
    /\ form' = IF inflight[i].outcome.kind = "ok" THEN form ELSE defaultValues
    /\ isLoading' = FALSE
    /\ inflight' = Remove(inflight, i)
    /\ UNCHANGED <<useMockData, errors, loadPc, response, gets, puts, submits>>

\* onSubmit from the settled await to the end of finally.
onSubmitResume(i) ==
    /\ inflight[i].kind = "put"
    /\ inflight[i].outcome # NoOutcome
    /\ toasts' = toast(SubmitToast(inflight[i].outcome))
    /\ isLoading' = FALSE
    /\ inflight' = Remove(inflight, i)
    /\ UNCHANGED <<useMockData, form, errors, loadPc, response, gets, puts,
                   submits>>

Next ==
    \/ fetchSettings
    \/ \E r \in GetResponses : GetSettles(r)
    \/ fetchSettingsResume
    \/ \E f \in SettingsFields : \E text \in UserTexts(f) : Edit(f, text)
    \/ handleSubmit
    \/ \E i \in DOMAIN inflight : TimerFires(i)
    \/ \E i \in DOMAIN inflight : \E o \in PutOutcomes : PutSettles(i, o)
    \/ \E i \in DOMAIN inflight : onSubmitResume(i)

Spec == Init /\ [][Next]_vars

\* Every request settles, every continuation and timer callback runs.
Fairness ==
    /\ WF_vars(fetchSettings)
    /\ WF_vars(\E r \in GetResponses : GetSettles(r))
    /\ WF_vars(fetchSettingsResume)
    /\ WF_vars(\E i \in DOMAIN inflight : TimerFires(i))
    /\ WF_vars(\E i \in DOMAIN inflight : \E o \in PutOutcomes : PutSettles(i, o))
    /\ WF_vars(\E i \in DOMAIN inflight : onSubmitResume(i))

FairSpec == Spec /\ Fairness

---------------------------------------------------------------------------
\* Vocabulary of the properties

\* A value the user or the store put into a field; an input left empty
\* stands for an absent field.
Present(v) == v # Undefined /\ v # Str(<<>>)

\* The domain of each ModelSettings field, in hundredths.
InDomain(f, n) ==
    CASE f = "temperature" -> n \in 0..200
      [] f = "maxTokens"   -> \E q \in 1..5000 : n = q * 100
      [] f = "topP"        -> n \in 0..100
      [] OTHER             -> n \in (0 - 200)..200

OutOfDomain(f) ==
    /\ Present(form[f])
    /\ LET c == ToNumber(form[f]) IN c = NaN \/ ~InDomain(f, c.n)

OutOfDomainForm == \E f \in SettingsFields : OutOfDomain(f)

LoadInFlight == loadPc \in {"fetching", "responded"}

InFlightCalls == (IF LoadInFlight THEN 1 ELSE 0) + Len(inflight)

SuccessToast(t) == t.type = "success"

---------------------------------------------------------------------------
\* Properties

\* C1: while a field of the edit buffer is outside its domain, no step calls
\* onSubmit or issues a PUT, in live and in demo mode alike, and a submit
\* attempt gives every such field its own error.
C1_InvalidSubmitRejected ==
    [][OutOfDomainForm =>
         /\ submits' = submits
         /\ puts' = puts
         /\ Len(inflight') <= Len(inflight)
         /\ (errors' # errors =>
                \A f \in SettingsFields : OutOfDomain(f) => f \in errors')]_vars

C1_Witness ==
    /\ ~useMockData
    /\ form["topP"] = Str(<<"1", ".", "5">>)
    /\ errors = {"topP"}
    /\ puts = 0

\* C2: when the load settles after a non-success response, a transport
\* error or an unparseable body, the edit buffer holds exactly the built-in
\* defaults and the demo-mode flag is true.
BuiltInDefaults ==
    [f \in StoreFields |->
        CASE f = "temperature"      -> Num(70)
          [] f = "maxTokens"        -> Num(400000)
          [] f = "topP"             -> Num(95)
          [] f = "frequencyPenalty" -> Num(0)
          [] f = "presencePenalty"  -> Num(0)
          [] OTHER                  -> Undefined]

C2_FailedLoadGivesDefaults ==
    [][(/\ loadPc = "responded"
        /\ response.kind \in {"not_ok", "rejected", "bad_json"}
        /\ loadPc' = "done")
       => (form' = BuiltInDefaults /\ useMockData' = TRUE)]_vars

C2_Witness ==
    /\ loadPc = "done"
    /\ useMockData
    /\ form = BuiltInDefaults
    /\ submits = 0

\* C3: in demo mode no PUT is ever issued, and every submit that passed
\* validation is followed by a success notification.
DemoSubmitPending(n) ==
    useMockData /\ inflight # <<>> /\ Len(toasts) = n

DemoSubmitReported(n) ==
    Len(toasts) > n /\ SuccessToast(toasts[n + 1])

SubmittedFields ==
    [f \in {g \in SettingsFields : form[g] # Undefined} |->
        ToNumber(form[f]).n]

C5_OneCallInFlight ==
    /\ InFlightCalls <= 1
    /\ (InFlightCalls = 1 => isLoading)
    /\ (loadPc # "done" => isLoading /\ submits = 0)

C5_Witness ==
    /\ submits = 2
    /\ Len(inflight) = 1
    /\ isLoading

\* C6: once the mount-time load has settled, the demo-mode flag never
\* changes and the load is never started again.
C6_ModeIsTerminal ==
    [][loadPc = "done" =>
         /\ useMockData' = useMockData
         /\ loadPc' = "done"
         /\ gets' = gets]_vars

C6_Witness ==
    /\ loadPc = "done"
    /\ ~useMockData
    /\ submits = 2
    /\ inflight = <<>>
    /\ toasts[1].type = "error"
    /\ toasts[2].type = "success"

\* C7: when the load settles with a settings record, every non-null field
\* of the record other than userId, createdAt and updatedAt is in the edit
\* buffer as returned, the session is live, and the three bookkeeping
\* fields are never in the edit buffer.
C7_LoadedValuesPopulateForm ==
    /\ [](\A k \in BookkeepingFields : form[k] = Undefined)
    /\ [][(/\ loadPc = "responded"
           /\ response.kind = "json"
           /\ response.settings # Null
           /\ loadPc' = "done")
          => /\ useMockData' = FALSE
             /\ \A k \in SettingsFields :
                   response.settings[k] # Null
                      => form'[k] = response.settings[k]]_vars

C7_Witness ==
    /\ loadPc = "done"
    /\ ~useMockData
    /\ form["temperature"] = Num(85)
    /\ form["maxTokens"] = Num(200000)
    /\ form["userId"] = Undefined

\* C8: the notifications emitted are one for a failed load and one for
\* each submit that passed validation and has finished, success for a
\* success and error for a failure; no step emits more than one.
FailedLoads == IF loadPc = "done" /\ useMockData THEN 1 ELSE 0

C8_OneNotificationPerOutcome ==
    /\ [](Len(toasts) = FailedLoads + submits - Len(inflight))
    /\ [][Len(toasts') <= Len(toasts) + 1]_vars
    /\ [][(Len(inflight) = 1 /\ inflight' = <<>>) =>
            LET ok == \/ inflight[1].kind = "timer"
                      \/ inflight[1].outcome.kind = "ok"
            IN  toasts'[Len(toasts')].type =
                   (IF ok THEN "success" ELSE "error")]_vars

C8_Witness ==
    /\ loadPc = "done"
    /\ ~useMockData
    /\ submits = 2
    /\ inflight = <<>>
    /\ Len(toasts) = 2
    /\ toasts[1].type = "success"
    /\ toasts[2].type = "error"

\* C9: no step of a submit changes the edit buffer: not the validation,
\* not the call of onSubmit, not anything while the call is in flight; and
\* a failed PUT is reported with its reason.
FailureReason(o) ==
    IF o.kind = "rejected" THEN o.message ELSE "Failed to update settings"

C9_SubmitLeavesBufferAlone ==
    /\ [][(inflight # <<>> \/ errors' # errors \/ submits' # submits)
            => form' = form]_vars
    /\ [][(/\ Len(inflight) = 1
           /\ inflight[1].kind = "put"
           /\ inflight[1].outcome.kind \in {"not_ok", "rejected"}
           /\ inflight' = <<>>)
          => toasts' = Append(toasts,
                 [type |-> "error",
                  description |-> FailureReason(inflight[1].outcome)])]_vars

C9_Witness ==
    /\ inflight = <<>>
    /\ submits = 1
    /\ ~useMockData
    /\ toasts = <<[type |-> "error", description |-> "Failed to fetch"]>>
    /\ form["temperature"] = Str(<<"1", ".", "2">>)

\* C10: whenever the loading flag is true it eventually becomes false,
\* given that requests settle and timers fire.
C10_LoadingEnds == isLoading ~> ~isLoading

C10_Witness ==
    /\ ~isLoading
    /\ submits = 2
    /\ inflight = <<>>
    /\ useMockData

====
